---- MODULE Spec2Model ----
(***************************************************************************)
(* metro-file-map, src/Watcher.js: the Watcher class.                      *)
(*                                                                         *)
(* One action of the model is one turn of the JavaScript event loop: a    *)
(* call from the owner of the Watcher, a timer callback, the settlement   *)
(* of a file-system operation, or an event emitted by a backend watcher,  *)
(* together with every promise reaction (microtask) that the turn makes   *)
(* runnable.  Strings are sequences of one-character strings, so that     *)
(* String(n), concatenation, path.basename and startsWith are computed.   *)
(* performance.now() is not modelled: a success result carries no         *)
(* timeElapsed field here.                                                 *)
(***************************************************************************)
EXTENDS Integers, Sequences, FiniteSets

(***************************************************************************)
(* Bounds of the model.                                                    *)
(***************************************************************************)
\* Number of configured roots (options.roots = <<1, ..., NumRoots>>).
NumRoots == 2
\* Number of checkHealth calls made on the Watcher.
MaxChecks == 2
\* Number of events, other than add/change events of basenames with the
\* health-check prefix, that the backends emit to their listeners.
MaxEvents == 2
\* Number of crawl() calls.
MaxCrawls == 3
\* Number of further Watcher instances constructed in the process.
MaxWatchers == 2

(***************************************************************************)
(* Program constants.                                                      *)
(***************************************************************************)
MAX_WAIT_TIME == 240000
\* Number.MAX_SAFE_INTEGER is 2^53 - 1; the model's integers are narrower,
\* and only its role as the point where the id wraps is modelled.
MAX_SAFE_INTEGER == 2147483647
\* process.pid: one process.
Pid == 42

ADD_EVENT == "add"
CHANGE_EVENT == "change"
DELETE_EVENT == "delete"

\* null and undefined
NULL == "null"
UNDEFINED == "undefined"

(***************************************************************************)
(* Strings.                                                                *)
(***************************************************************************)
Digits == <<"0", "1", "2", "3", "4", "5", "6", "7", "8", "9">>

\* String(n) of a non-negative integer: its decimal digits.
RECURSIVE String(_)
String(n) ==
  IF n < 10 THEN <<Digits[n + 1]>>
  ELSE String(n \div 10) \o <<Digits[(n % 10) + 1]>>

\* String.prototype.startsWith
StartsWith(s, p) == Len(s) >= Len(p) /\ SubSeq(s, 1, Len(p)) = p

\* path.basename of a relative path given as its sequence of segments.
Basename(relativePath) == relativePath[Len(relativePath)]

\* options.healthCheckFilePrefix
healthCheckFilePrefix == <<".", "h", "c">>

\* The cookie basename built by checkHealth.
CookieBasename(instId, healthCheckId) ==
  healthCheckFilePrefix \o <<"-">> \o String(Pid) \o <<"-">>
    \o String(instId) \o <<"-">> \o String(healthCheckId)

(***************************************************************************)
(* Inputs.                                                                 *)
(***************************************************************************)
Roots == 1..NumRoots
Calls == 1..MaxChecks
Timeouts == {50}
PauseReasons == {NULL, "deferred"}
WriteErrors == {"ENOSPC"}
EventKinds == {ADD_EVENT, CHANGE_EVENT, DELETE_EVENT}

\* Paths the backends report: the cookies of instance 0, a cookie of another
\* process, and an ordinary file in a directory whose name is the prefix.
EventPaths ==
  {<<CookieBasename(0, i)>> : i \in 0..(MaxChecks - 1)}
    \cup {<<healthCheckFilePrefix \o <<"-", "7">>>>,
          <<healthCheckFilePrefix, <<"a">>>>}

ChangeEvents == [event : EventKinds, relativePath : EventPaths]

VARIABLES
  useWatchman,           \* options.useWatchman
  nextInstanceId,        \* module-level counter
  _instanceId,
  _backends,
  _activeWatcher,
  _nextHealthCheckId,
  _pendingHealthChecks,  \* Map basename -> resolve, as {[basename, call]}
  watcher,               \* per root: the backend object made by watch()
  watchState,            \* the promise returned by watch()
  watchError,
  hc,                    \* per checkHealth call: its locals and promises
  first,                 \* per checkHealth call: which of timer, write
                         \* failure and observation happened first
  otherEvents,           \* number of events the listeners have handled that
                         \* were not add/change of a prefixed basename
  onChangeCount,         \* number of onChange invocations
  lastOnChange,          \* the argument of the last onChange invocation
  aborted,               \* options.abortSignal.aborted
  crawls,                \* number of crawl() calls made
  crawlPc,               \* where the current crawl() call is
  crawler,               \* crawl(): `let crawler`
  crawlError,            \* retry(): the error the primary strategy failed with
  crawlOut,              \* what the promise returned by crawl() settled with
  crawlLog,              \* crawl(): strategy invocations and warnings, in order
  strategyOut,           \* what the strategies' promises settled with, in order
  closeState,            \* the promise returned by close()
  backendClose,          \* per root: the promise its backend's close() returned
  pause,                 \* per root: what its backend's getPauseReason() returns
  watchers               \* the Watchers constructed later in the process: of
                         \* each its _instanceId, its _nextHealthCheckId and
                         \* the ids and basenames of its checkHealth calls

vars == <<useWatchman, nextInstanceId, _instanceId, _backends, _activeWatcher,
          _nextHealthCheckId, _pendingHealthChecks, watcher, watchState,
          watchError, hc, first, otherEvents, onChangeCount, lastOnChange, aborted, crawls,
          crawlPc, crawler, crawlError, crawlOut, crawlLog, strategyOut,
          closeState, backendClose, pause, watchers>>

watchVars == <<_backends, _activeWatcher, watcher, watchState, watchError>>
healthVars == <<_nextHealthCheckId, _pendingHealthChecks, hc, first>>
eventVars == <<otherEvents, onChangeCount, lastOnChange>>
crawlVars == <<aborted, crawls, crawlPc, crawler, crawlError, crawlOut,
               crawlLog, strategyOut>>
closeVars == <<closeState, backendClose>>
constVars == <<useWatchman, nextInstanceId, _instanceId, watchers>>

(***************************************************************************)
(* watch()                                                                 *)
(***************************************************************************)
\* WatchmanWatcher > FSEventsWatcher > NodeWatcher
WatcherName(watchman, fsEventsSupported) ==
  IF watchman THEN "watchman"
  ELSE IF fsEventsSupported THEN "fsevents"
  ELSE "node"

\* The state of the promise createWatcherBackend returned for a root.
\*   "starting": constructed, rejectTimeout armed, 'ready' not fired
\*   "ready":    'ready' fired first: timer cleared, 'all' subscribed, resolved
\*   "timedout": rejectTimeout fired first: rejected
\*   "late":     'ready' fired after the timeout: 'all' subscribed, still rejected
BackendPromise(w) ==
  CASE w = "starting" -> "pending"
    [] w = "ready" -> "fulfilled"
    [] w \in {"timedout", "late"} -> "rejected"
    [] OTHER -> "none"

\* Whether the 'all' listener of a root's backend is installed.
Subscribed(w) == w \in {"ready", "late"}

\* Mutant: the first fulfilled promise fulfils the whole (Promise.any).
PromiseAll_any(ps) ==
  IF \E r \in DOMAIN ps : ps[r] = "fulfilled" THEN "fulfilled"
  ELSE IF \A r \in DOMAIN ps : ps[r] = "rejected" THEN "rejected"
  ELSE "pending"

\* Promise.all over the per-root promises.
PromiseAll(ps) ==
  IF \E r \in DOMAIN ps : ps[r] = "rejected" THEN "rejected"
  ELSE IF \A r \in DOMAIN ps : ps[r] = "fulfilled" THEN "fulfilled"
  ELSE "pending"

\* watch() resumes after `await Promise.all(...)`.
WatchSettle(ws) ==
  LET all == PromiseAll([r \in Roots |-> BackendPromise(ws[r])]) IN
  IF watchState # "pending" THEN UNCHANGED <<_backends, watchState, watchError>>
  ELSE IF all = "fulfilled"
    THEN /\ _backends' = [i \in 1..NumRoots |-> i]
         /\ watchState' = "resolved"
         /\ UNCHANGED watchError
  ELSE IF all = "rejected"
    THEN /\ watchState' = "rejected"
         /\ watchError' = "Failed to start watch mode."
         /\ UNCHANGED _backends
  ELSE UNCHANGED <<_backends, watchState, watchError>>

\* watch(onChange): the synchronous part. The backends are constructed in
\* the order of options.roots; a constructor that throws ends the map, so
\* the roots after it are never constructed, and watch() rejects.
WatchCall ==
  /\ watchState = "idle"
  /\ \E fsEventsSupported \in BOOLEAN :
       _activeWatcher' = WatcherName(useWatchman, fsEventsSupported)
  /\ \E failAt \in Roots \cup {NumRoots + 1} :
       /\ watcher' = [r \in Roots |->
                        IF r < failAt THEN "starting"
                        ELSE IF r = failAt THEN "threw" ELSE "absent"]
       /\ IF failAt \in Roots
            THEN /\ watchState' = "rejected"
                 /\ watchError' = "constructor threw"
            ELSE /\ watchState' = "pending"
                 /\ UNCHANGED watchError
  /\ UNCHANGED <<_backends, healthVars, eventVars, constVars, crawlVars, closeVars, pause>>

\* A backend fires 'ready': clearTimeout, subscribe to 'all', resolve.
Ready(r) ==
  /\ watcher[r] \in {"starting", "timedout"}
  /\ watcher' = [watcher EXCEPT ![r] =
                   IF watcher[r] = "starting" THEN "ready" ELSE "late"]
  /\ WatchSettle(watcher')
  /\ UNCHANGED <<_activeWatcher, healthVars, eventVars, constVars, crawlVars, closeVars, pause>>

\* rejectTimeout fires after MAX_WAIT_TIME.
StartTimeout(r) ==
  /\ watcher[r] = "starting"
  /\ watcher' = [watcher EXCEPT ![r] = "timedout"]
  /\ WatchSettle(watcher')
  /\ UNCHANGED <<_activeWatcher, healthVars, eventVars, constVars, crawlVars, closeVars, pause>>

\* The backend of a root starts or stops deferring its events: what its
\* getPauseReason() returns changes.
SetPause(r, reason) ==
  /\ watcher[r] \in {"starting", "ready", "timedout", "late"}
  /\ pause[r] # reason
  /\ pause' = [pause EXCEPT ![r] = reason]
  /\ UNCHANGED <<watchVars, healthVars, eventVars, constVars, crawlVars,
                 closeState, backendClose>>

(***************************************************************************)
(* close()                                                                 *)
(***************************************************************************)
\* Mutant: close() does not wait for the backends' promises.
ClosePromise_notAwaited(b) == "fulfilled"

\* The state of the promise a backend's close() returned.
ClosePromise(b) ==
  CASE b = "closing" -> "pending"
    [] b = "closed" -> "fulfilled"
    [] b = "failed" -> "rejected"
    [] OTHER -> "none"

\* close() resumes after `await Promise.all(...)`: the marker is cleared.
CloseSettle(bc) ==
  LET all == PromiseAll([i \in DOMAIN _backends |-> ClosePromise(bc[_backends[i]])]) IN
  IF all = "fulfilled"
    THEN closeState' = "resolved" /\ _activeWatcher' = NULL
  ELSE IF all = "rejected"
    THEN closeState' = "rejected" /\ UNCHANGED _activeWatcher
  ELSE closeState' = "pending" /\ UNCHANGED _activeWatcher

\* close(): close() is called on every backend in _backends, in order, and
\* their promises are awaited together.
Close ==
  /\ closeState = "idle"
  /\ backendClose' = [r \in Roots |->
                        IF \E i \in DOMAIN _backends : _backends[i] = r
                          THEN "closing" ELSE backendClose[r]]
  /\ CloseSettle(backendClose')
  /\ UNCHANGED <<_backends, watcher, watchState, watchError, healthVars,
                 eventVars, constVars, crawlVars, pause>>

\* The promise of a backend's close() settles.
BackendCloseSettles(r, outcome) ==
  /\ backendClose[r] = "closing"
  /\ backendClose' = [backendClose EXCEPT ![r] =
                        IF outcome = "ok" THEN "closed" ELSE "failed"]
  /\ IF closeState = "pending"
       THEN CloseSettle(backendClose')
       ELSE UNCHANGED <<closeState, _activeWatcher>>
  /\ UNCHANGED <<_backends, watcher, watchState, watchError, healthVars,
                 eventVars, constVars, crawlVars, pause>>

(***************************************************************************)
(* checkHealth(timeout)                                                    *)
(***************************************************************************)
\* `let result: ?HealthCheckResult` before any task has assigned it.
NoResult == [type |-> "none"]

\* A checkHealth call that has not been made.
IdleCall ==
  [pc |-> "idle", healthCheckId |-> 0, basename |-> <<>>, watcher |-> UNDEFINED,
   timeout |-> 0, result |-> NoResult, timer |-> "unset", creation |-> "unset",
   observation |-> "unset", unlink |-> "none", unlinks |-> 0,
   returned |-> NoResult]

\* Mutant: the wrap leaves the counter at its maximum.
NextHealthCheckId_noReset(healthCheckId) ==
  IF healthCheckId = MAX_SAFE_INTEGER THEN MAX_SAFE_INTEGER ELSE healthCheckId + 1

\* this._nextHealthCheckId after `this._nextHealthCheckId++` and the wrap.
NextHealthCheckId(healthCheckId) ==
  IF healthCheckId = MAX_SAFE_INTEGER THEN 0 ELSE healthCheckId + 1

\* Mutant: get ignores its key.
MapGet_anyKey(map, basename) == {e.call : e \in map}

\* Mutant: delete removes nothing.
MapDelete_keep(map, basename) == map

\* Map.prototype.set / get / delete on _pendingHealthChecks.
MapSet(map, basename, c) ==
  {e \in map : e.basename # basename} \cup {[basename |-> basename, call |-> c]}
MapGet(map, basename) == {e.call : e \in {x \in map : x.basename = basename}}
MapDelete(map, basename) == {e \in map : e.basename # basename}

\* Mutant: the assignment without its guard.
SetResult_unguarded(result, r) == r

\* `if (!result) { result = r; }`
SetResult(result, r) == IF result = NoResult THEN r ELSE result

\* Mutant: the race is over creationPromise itself.
RaceSettled_creationOnly(h) ==
  \/ h.timer = "fired"
  \/ h.creation = "fulfilled"

\* Promise.race([timeoutPromise, creationPromise.then(() => observationPromise)])
\* has settled.
RaceSettled(h) ==
  \/ h.timer = "fired"
  \/ h.creation = "fulfilled" /\ h.observation = "fulfilled"

\* nullthrows(result)
Nullthrows(result) == IF result = NoResult THEN "threw" ELSE "returned"

\* Mutant: the unlink is started by checkHealth itself, not chained.
Resume_unlinkAtOnce(h) ==
  [h EXCEPT !.pc = Nullthrows(h.result),
            !.returned = h.result,
            !.unlink = "attempted",
            !.unlinks = @ + 1]

\* checkHealth after `await Promise.race(...)`: chain the unlink to
\* creationPromise (it starts at once when the write has settled), return.
\* unlinks counts the calls of fs.promises.unlink.
Resume(h) ==
  [h EXCEPT !.pc = Nullthrows(h.result),
            !.returned = h.result,
            !.unlink = IF h.creation = "fulfilled" THEN "attempted" ELSE "chained",
            !.unlinks = IF h.creation = "fulfilled" THEN @ + 1 ELSE @]

\* The end of a turn in which call c's promises changed to h: checkHealth
\* resumes if the race has settled, and deletes its pending entry.
Turn(c, h) ==
  LET resumed == h.pc = "awaiting" /\ RaceSettled(h) IN
  /\ hc' = [hc EXCEPT ![c] = IF resumed THEN Resume(h) ELSE h]
  /\ _pendingHealthChecks' =
       IF resumed THEN MapDelete(_pendingHealthChecks, h.basename)
       ELSE _pendingHealthChecks

\* History: the first of the timer, a write failure and an observation of
\* call c's own basename to happen.
Signal(c, s) ==
  first' = [first EXCEPT ![c] = IF @ = "none" THEN s ELSE @]

\* checkHealth(timeout) up to `await Promise.race(...)`.
CheckHealth(c, timeout) ==
  /\ hc[c].pc = "idle"
  /\ IF c = 1 THEN TRUE ELSE hc[c - 1].pc # "idle"
  /\ LET healthCheckId == _nextHealthCheckId
         basename == CookieBasename(_instanceId, healthCheckId) IN
     /\ _nextHealthCheckId' = NextHealthCheckId(healthCheckId)
     /\ hc' = [hc EXCEPT ![c] =
                 [pc |-> "awaiting", healthCheckId |-> healthCheckId,
                  basename |-> basename, watcher |-> _activeWatcher,
                  timeout |-> timeout, result |-> NoResult, timer |-> "armed",
                  creation |-> "pending", observation |-> "pending",
                  unlink |-> "none", unlinks |-> 0, returned |-> NoResult]]
     /\ _pendingHealthChecks' = MapSet(_pendingHealthChecks, basename, c)
  /\ UNCHANGED <<first, watchVars, eventVars, constVars, crawlVars, closeVars, pause>>

\* Mutant: the first backend that reports a reason is asked.
GetPauseReason_anyPaused(backends, reasons) ==
  IF Len(backends) = 0 THEN UNDEFINED
  ELSE IF \E i \in DOMAIN backends : reasons[backends[i]] # NULL
    THEN reasons[backends[CHOOSE i \in DOMAIN backends : reasons[backends[i]] # NULL]]
  ELSE NULL

\* this._backends[0]?.getPauseReason()
GetPauseReason(backends, reasons) ==
  IF Len(backends) = 0 THEN UNDEFINED ELSE reasons[backends[1]]

\* The timer of call c fires: timeoutPromise's reaction.
TimerFires(c) ==
  /\ hc[c].timer = "armed"
  /\ LET pauseReason == GetPauseReason(_backends, pause)
         h == hc[c] IN
       Turn(c, [h EXCEPT !.timer = "fired",
                         !.result = SetResult(@, [type |-> "timeout",
                                                  pauseReason |-> pauseReason,
                                                  timeout |-> h.timeout,
                                                  watcher |-> h.watcher])])
  /\ Signal(c, "timer")
  /\ UNCHANGED <<_nextHealthCheckId, watchVars, eventVars, constVars, crawlVars, closeVars, pause>>

\* fs.promises.writeFile settles: creationPromise is fulfilled either way;
\* an unlink chained to it by a call that has returned starts.
WriteSettles(c, outcome) ==
  /\ hc[c].creation = "pending"
  /\ LET h == hc[c] IN
     Turn(c, [h EXCEPT !.creation = "fulfilled",
                       !.result = IF outcome = "ok" THEN @
                                  ELSE SetResult(@, [type |-> "error",
                                                     error |-> outcome,
                                                     timeout |-> h.timeout,
                                                     watcher |-> h.watcher]),
                       !.unlink = IF @ = "chained" THEN "attempted" ELSE @,
                       !.unlinks = IF h.unlink = "chained" THEN @ + 1 ELSE @])
  /\ IF outcome = "ok" THEN UNCHANGED first ELSE Signal(c, "writeError")
  /\ UNCHANGED <<_nextHealthCheckId, watchVars, eventVars, constVars, crawlVars, closeVars, pause>>

\* fs.promises.unlink settles: a failure is caught by `.catch(() => {})`,
\* so the chained promise is fulfilled either way.
UnlinkSettles(c, outcome) ==
  /\ hc[c].unlink = "attempted"
  /\ outcome \in {"ok", "ENOENT"}
  /\ hc' = [hc EXCEPT ![c].unlink = "settled"]
  /\ UNCHANGED <<_nextHealthCheckId, _pendingHealthChecks, first, watchVars,
                 eventVars, constVars, crawlVars, closeVars, pause>>

(***************************************************************************)
(* Further Watcher instances of the process.                               *)
(***************************************************************************)
\* Mutant: the counter is read and not incremented.
PostIncrement_same(n) == n

\* nextInstanceId after `nextInstanceId++`.
PostIncrement(n) == n + 1

\* new Watcher(options): `this._instanceId = nextInstanceId++`.
Construct ==
  /\ Len(watchers) < MaxWatchers
  /\ watchers' = Append(watchers, [_instanceId |-> nextInstanceId,
                                   _nextHealthCheckId |-> 0,
                                   checks |-> <<>>])
  /\ nextInstanceId' = PostIncrement(nextInstanceId)
  /\ UNCHANGED <<useWatchman, _instanceId, watchVars, healthVars, eventVars,
                 crawlVars, closeVars, pause>>

\* checkHealth on a further Watcher: the id it takes and the basename it
\* builds (lines 249-261).
OtherCheckHealth(i) ==
  /\ Len(watchers[i].checks) < MaxChecks
  /\ LET w == watchers[i]
         healthCheckId == w._nextHealthCheckId IN
     watchers' = [watchers EXCEPT ![i] =
                    [w EXCEPT !._nextHealthCheckId = NextHealthCheckId(healthCheckId),
                              !.checks = Append(@, [healthCheckId |-> healthCheckId,
                                                    basename |-> CookieBasename(
                                                      w._instanceId, healthCheckId)])]]
  /\ UNCHANGED <<useWatchman, nextInstanceId, _instanceId, watchVars,
                 healthVars, eventVars, crawlVars, closeVars, pause>>

(***************************************************************************)
(* The 'all' listener installed on a ready backend.                        *)
(***************************************************************************)
NoChange == [event |-> NULL, relativePath |-> <<>>]

\* The events the health check is for: add or change of a basename that
\* starts with the prefix.
IsCookieEvent(change) ==
  /\ StartsWith(Basename(change.relativePath), healthCheckFilePrefix)
  /\ change.event \in {ADD_EVENT, CHANGE_EVENT}

CookieEvents == {change \in ChangeEvents : IsCookieEvent(change)}

\* Mutant: only add events are observations.
Listener_addOnly(change) ==
  LET basename == Basename(change.relativePath) IN
  IF StartsWith(basename, healthCheckFilePrefix)
    THEN IF change.event = ADD_EVENT
           THEN [observed |-> basename, forwarded |-> NoChange]
           ELSE [observed |-> <<>>, forwarded |-> NoChange]
    ELSE [observed |-> <<>>, forwarded |-> change]

\* Mutant: the return is inside the test of the event's kind.
Listener_forwardDelete(change) ==
  LET basename == Basename(change.relativePath) IN
  IF /\ StartsWith(basename, healthCheckFilePrefix)
     /\ (change.event = ADD_EVENT \/ change.event = CHANGE_EVENT)
    THEN [observed |-> basename, forwarded |-> NoChange]
    ELSE [observed |-> <<>>, forwarded |-> change]

\* What the listener does with a change: the basename it hands to
\* _handleHealthCheckObservation (<<>>: not called) and the change it passes
\* to onChange (NoChange: not called).
Listener(change) ==
  LET basename == Basename(change.relativePath) IN
  IF StartsWith(basename, healthCheckFilePrefix)
    THEN IF change.event = ADD_EVENT \/ change.event = CHANGE_EVENT
           THEN [observed |-> basename, forwarded |-> NoChange]
           ELSE [observed |-> <<>>, forwarded |-> NoChange]
    ELSE [observed |-> <<>>, forwarded |-> change]

\* Mutant: the early return is taken always.
HandleHealthCheckObservation_never(basename) == {}

\* _handleHealthCheckObservation(basename): the calls whose resolve is run.
HandleHealthCheckObservation(basename) == MapGet(_pendingHealthChecks, basename)

\* A subscribed backend emits 'all'.
Emit(r, change) ==
  /\ Subscribed(watcher[r])
  /\ backendClose[r] # "closed"
  /\ IF IsCookieEvent(change)
       THEN UNCHANGED otherEvents
       ELSE otherEvents < MaxEvents /\ otherEvents' = otherEvents + 1
  /\ LET d == Listener(change)
         resolved == IF d.observed = <<>> THEN {}
                     ELSE HandleHealthCheckObservation(d.observed) IN
     /\ IF d.forwarded = NoChange
          THEN UNCHANGED <<onChangeCount, lastOnChange>>
          ELSE /\ onChangeCount' = onChangeCount + 1
               /\ lastOnChange' = d.forwarded
     /\ IF resolved = {}
          THEN UNCHANGED <<hc, _pendingHealthChecks>>
          ELSE \E c \in resolved :
                 LET h == hc[c] IN
                 Turn(c, [h EXCEPT !.observation = "fulfilled",
                                   !.result = SetResult(@, [type |-> "success",
                                                            timeout |-> h.timeout,
                                                            watcher |-> h.watcher])])
     /\ first' = [c \in Calls |->
                    IF /\ hc[c].pc # "idle"
                       /\ change.event \in {ADD_EVENT, CHANGE_EVENT}
                       /\ Basename(change.relativePath) = hc[c].basename
                       /\ first[c] = "none"
                      THEN "observation" ELSE first[c]]
  /\ UNCHANGED <<_nextHealthCheckId, watchVars, constVars, crawlVars, closeVars, pause>>

(***************************************************************************)
(* crawl()                                                                 *)
(*                                                                         *)
(* The crawl strategies (crawlers/watchman, crawlers/node) are called      *)
(* through their contract: each returns a promise, which is fulfilled with *)
(* a CrawlResult or rejected with an Error.                                *)
(***************************************************************************)
\* CrawlResult values the strategies report.
Deltas ==
  {[changedFiles |-> {"a.js"}, removedFiles |-> {}, clocks |-> UNDEFINED],
   [changedFiles |-> {}, removedFiles |-> {"b.js"}, clocks |-> "c:1"]}

\* Errors the strategies fail with.
CrawlErrors == {[message |-> <<"E", "1">>], [message |-> <<"E", "2">>]}

\* What abortSignal.throwIfAborted() throws.
AbortError == [message |-> <<"A", "b", "o", "r", "t", "e", "d">>]

StrategyOutcomes ==
  [type : {"fulfilled"}, value : Deltas] \cup [type : {"rejected"}, value : CrawlErrors]

NoOutcome == [type |-> "none"]

\* const crawl = options.useWatchman ? watchmanCrawl : nodeCrawl;
SelectCrawl(watchman) == IF watchman THEN "watchman" ELSE "node"

\* Mutant: the original error is dropped.
RetryFailedMessage_retryOnly(error, e) ==
  <<"Crawler retry failed:", "\n", "  Retry error: ">> \o e.message \o <<"\n">>

\* The message of the Error thrown when the retry fails too.
RetryFailedMessage(error, e) ==
  <<"Crawler retry failed:", "\n", "  Original error: ">> \o error.message
    \o <<"\n", "  Retry error: ">> \o e.message \o <<"\n">>

\* Mutant: retry does not test which strategy failed.
RetryWithNode_always(crawl) == TRUE

\* retry(error): whether the node crawler is run in place of the failed one.
RetryWithNode(crawl) == crawl = "watchman"

\* Mutant: the warning comes after the node crawler is started.
RetryEffects_warnLate(log) == log \o <<"node", "warn">>

\* retry(error): console.warn, then nodeCrawl(crawlerOptions).
RetryEffects(log) == log \o <<"warn", "node">>

\* Mutant: the entry check is missing.
ThrowIfAborted_never(signalAborted) == FALSE

\* options.abortSignal.throwIfAborted(): whether it throws.
ThrowIfAborted(signalAborted) == signalAborted

\* crawl(): the abort check, then the selected strategy is started.
CrawlCall ==
  /\ crawlPc \in {"idle", "resolved", "rejected"}
  /\ crawls < MaxCrawls
  /\ crawls' = crawls + 1
  /\ crawler' = SelectCrawl(useWatchman)
  /\ crawlError' = NoOutcome
  /\ strategyOut' = <<>>
  /\ IF ThrowIfAborted(aborted)
       THEN /\ crawlPc' = "rejected"
            /\ crawlOut' = [type |-> "rejected", value |-> AbortError]
            /\ crawlLog' = <<>>
       ELSE /\ crawlPc' = "primary"
            /\ crawlOut' = NoOutcome
            /\ crawlLog' = <<SelectCrawl(useWatchman)>>
  /\ UNCHANGED <<aborted, watchVars, healthVars, eventVars, constVars, closeVars, pause>>

\* The promise of the selected strategy settles: logEnd on success, retry
\* on failure.
PrimarySettles(outcome) ==
  /\ crawlPc = "primary"
  /\ strategyOut' = Append(strategyOut, outcome)
  /\ IF outcome.type = "fulfilled"
       THEN /\ crawlPc' = "resolved"
            /\ crawlOut' = outcome
            /\ UNCHANGED <<crawler, crawlError, crawlLog>>
       ELSE IF RetryWithNode(SelectCrawl(useWatchman))
         THEN /\ crawler' = "node"
              /\ crawlLog' = RetryEffects(crawlLog)
              /\ crawlError' = outcome
              /\ crawlPc' = "retry"
              /\ UNCHANGED crawlOut
         ELSE /\ crawlPc' = "rejected"
              /\ crawlOut' = outcome
              /\ UNCHANGED <<crawler, crawlError, crawlLog>>
  /\ UNCHANGED <<aborted, crawls, watchVars, healthVars, eventVars, constVars, closeVars, pause>>

\* The promise of the node crawler started by retry settles: logEnd on
\* success, the combined Error on failure.
RetrySettles(outcome) ==
  /\ crawlPc = "retry"
  /\ strategyOut' = Append(strategyOut, outcome)
  /\ IF outcome.type = "fulfilled"
       THEN /\ crawlPc' = "resolved"
            /\ crawlOut' = outcome
       ELSE /\ crawlPc' = "rejected"
            /\ crawlOut' = [type |-> "rejected",
                            value |-> [message |->
                              RetryFailedMessage(crawlError.value, outcome.value)]]
  /\ UNCHANGED <<aborted, crawls, crawler, crawlError, crawlLog, watchVars,
                 healthVars, eventVars, constVars, closeVars, pause>>

\* The owner of the abort signal aborts.
Abort ==
  /\ ~aborted
  /\ aborted' = TRUE
  /\ UNCHANGED <<crawls, crawlPc, crawler, crawlError, crawlOut, crawlLog,
                 strategyOut, watchVars, healthVars, eventVars, constVars, closeVars, pause>>

(***************************************************************************)
(* Specification of a watch session with health checks.                    *)
(***************************************************************************)
Init ==
  /\ useWatchman \in BOOLEAN
  /\ nextInstanceId = 1
  /\ _instanceId = 0
  /\ _backends = <<>>
  /\ _activeWatcher = UNDEFINED
  /\ _nextHealthCheckId = 0
  /\ _pendingHealthChecks = {}
  /\ watcher = [r \in Roots |-> "absent"]
  /\ watchState = "idle"
  /\ watchError = NULL
  /\ hc = [c \in Calls |-> IdleCall]
  /\ first = [c \in Calls |-> "none"]
  /\ otherEvents = 0
  /\ onChangeCount = 0
  /\ lastOnChange = NoChange
  /\ aborted = FALSE
  /\ crawls = 0
  /\ crawlPc = "idle"
  /\ crawler = UNDEFINED
  /\ crawlError = NoOutcome
  /\ crawlOut = NoOutcome
  /\ crawlLog = <<>>
  /\ strategyOut = <<>>
  /\ closeState = "idle"
  /\ backendClose = [r \in Roots |-> "none"]
  /\ pause = [r \in Roots |-> NULL]
  /\ watchers = <<>>

Next ==
  \/ WatchCall
  \/ \E r \in Roots : Ready(r)
  \/ \E r \in Roots : StartTimeout(r)
  \/ \E c \in Calls, timeout \in Timeouts : CheckHealth(c, timeout)
  \/ \E c \in Calls : TimerFires(c)
  \/ \E c \in Calls, outcome \in {"ok"} \cup WriteErrors : WriteSettles(c, outcome)
  \/ \E r \in Roots, change \in ChangeEvents : Emit(r, change)

Spec == Init /\ [][Next]_vars

(***************************************************************************)
(* Specification of a watch session without health checks.                 *)
(***************************************************************************)
SessionNext ==
  \/ WatchCall
  \/ \E r \in Roots : Ready(r)
  \/ \E r \in Roots : StartTimeout(r)
  \/ \E r \in Roots, change \in ChangeEvents : Emit(r, change)

SessionSpec == Init /\ [][SessionNext]_vars

(***************************************************************************)
(* Specification of the health checks of a watch session.  checkHealth     *)
(* reads of the session the name of the selected backend, whether a        *)
(* backend is registered and which cookie events the subscribed backends   *)
(* emit: the options select watchman, a root's backend becomes ready or    *)
(* its construction fails (watch() then rejects with the roots before it   *)
(* subscribed), and the backends emit the events the health check is for.  *)
(***************************************************************************)
HealthInit == Init /\ useWatchman

HealthNext ==
  \/ WatchCall
  \/ \E r \in Roots : Ready(r)
  \/ \E c \in Calls, timeout \in Timeouts : CheckHealth(c, timeout)
  \/ \E c \in Calls : TimerFires(c)
  \/ \E c \in Calls, outcome \in {"ok"} \cup WriteErrors : WriteSettles(c, outcome)
  \/ \E r \in Roots, change \in CookieEvents : Emit(r, change)

HealthSpec == HealthInit /\ [][HealthNext]_vars

(***************************************************************************)
(* Specification of the health checks of a watch session with the          *)
(* settlement of the cookies' deletions.                                   *)
(***************************************************************************)
CleanupNext ==
  \/ HealthNext
  \/ \E c \in Calls, outcome \in {"ok", "ENOENT"} : UnlinkSettles(c, outcome)

CleanupSpec == HealthInit /\ [][CleanupNext]_vars

(***************************************************************************)
(* Specification of the health checks of a watch session whose backends    *)
(* start and stop deferring their events.                                  *)
(***************************************************************************)
PauseNext ==
  \/ WatchCall
  \/ \E r \in Roots : Ready(r)
  \/ \E r \in Roots, reason \in PauseReasons : SetPause(r, reason)
  \/ \E c \in Calls, timeout \in Timeouts : CheckHealth(c, timeout)
  \/ \E c \in Calls : TimerFires(c)
  \/ \E c \in Calls, outcome \in {"ok"} \cup WriteErrors : WriteSettles(c, outcome)

PauseSpec == HealthInit /\ [][PauseNext]_vars

(***************************************************************************)
(* Specification of a watch session that is closed, with health checks     *)
(* that time out.                                                          *)
(***************************************************************************)
CloseNext ==
  \/ WatchCall
  \/ \E r \in Roots : Ready(r)
  \/ Close
  \/ \E r \in Roots, outcome \in {"ok", "EIO"} : BackendCloseSettles(r, outcome)
  \/ \E c \in Calls, timeout \in Timeouts : CheckHealth(c, timeout)
  \/ \E c \in Calls : TimerFires(c)

CloseSpec == Init /\ [][CloseNext]_vars

(***************************************************************************)
(* Specification of a watch session that fails to start, or starts, and is *)
(* closed, while its backends emit events.                                 *)
(***************************************************************************)
TeardownNext ==
  \/ WatchCall
  \/ \E r \in Roots : Ready(r)
  \/ \E r \in Roots : StartTimeout(r)
  \/ Close
  \/ \E r \in Roots, outcome \in {"ok", "EIO"} : BackendCloseSettles(r, outcome)
  \/ \E r \in Roots, change \in ChangeEvents : Emit(r, change)

TeardownSpec == Init /\ [][TeardownNext]_vars

(***************************************************************************)
(* Specification of the health checks around the wrap of the check id: a   *)
(* Watcher without a session on which no, MAX_SAFE_INTEGER - 1 or          *)
(* MAX_SAFE_INTEGER checks have been made and have returned.               *)
(***************************************************************************)
WrapInit ==
  /\ useWatchman \in BOOLEAN
  /\ nextInstanceId = 1
  /\ _instanceId = 0
  /\ _backends = <<>>
  /\ _activeWatcher = UNDEFINED
  /\ _nextHealthCheckId \in {0, MAX_SAFE_INTEGER - 1, MAX_SAFE_INTEGER}
  /\ _pendingHealthChecks = {}
  /\ watcher = [r \in Roots |-> "absent"]
  /\ watchState = "idle"
  /\ watchError = NULL
  /\ hc = [c \in Calls |-> IdleCall]
  /\ first = [c \in Calls |-> "none"]
  /\ otherEvents = 0
  /\ onChangeCount = 0
  /\ lastOnChange = NoChange
  /\ aborted = FALSE
  /\ crawls = 0
  /\ crawlPc = "idle"
  /\ crawler = UNDEFINED
  /\ crawlError = NoOutcome
  /\ crawlOut = NoOutcome
  /\ crawlLog = <<>>
  /\ strategyOut = <<>>
  /\ closeState = "idle"
  /\ backendClose = [r \in Roots |-> "none"]
  /\ pause = [r \in Roots |-> NULL]
  /\ watchers = <<>>

WrapNext ==
  \/ \E c \in Calls, timeout \in Timeouts : CheckHealth(c, timeout)
  \/ \E c \in Calls : TimerFires(c)
  \/ \E c \in Calls, outcome \in {"ok"} \cup WriteErrors : WriteSettles(c, outcome)

WrapSpec == WrapInit /\ [][WrapNext]_vars

(***************************************************************************)
(* Specification of the Watchers of one process and the cookies of their   *)
(* health checks: the Watcher is the first or the second of the process;   *)
(* in the latter case it has made ten checks and ten more Watchers were    *)
(* constructed since.                                                      *)
(***************************************************************************)
InstanceInit ==
  /\ useWatchman \in BOOLEAN
  /\ \E made \in {<<0, 1, 0>>, <<1, 12, 10>>} :
       /\ _instanceId = made[1]
       /\ nextInstanceId = made[2]
       /\ _nextHealthCheckId = made[3]
  /\ _backends = <<>>
  /\ _activeWatcher = UNDEFINED
  /\ _pendingHealthChecks = {}
  /\ watcher = [r \in Roots |-> "absent"]
  /\ watchState = "idle"
  /\ watchError = NULL
  /\ hc = [c \in Calls |-> IdleCall]
  /\ first = [c \in Calls |-> "none"]
  /\ otherEvents = 0
  /\ onChangeCount = 0
  /\ lastOnChange = NoChange
  /\ aborted = FALSE
  /\ crawls = 0
  /\ crawlPc = "idle"
  /\ crawler = UNDEFINED
  /\ crawlError = NoOutcome
  /\ crawlOut = NoOutcome
  /\ crawlLog = <<>>
  /\ strategyOut = <<>>
  /\ closeState = "idle"
  /\ backendClose = [r \in Roots |-> "none"]
  /\ pause = [r \in Roots |-> NULL]
  /\ watchers = <<>>

InstanceNext ==
  \/ Construct
  \/ \E i \in 1..Len(watchers) : OtherCheckHealth(i)
  \/ \E c \in Calls, timeout \in Timeouts : CheckHealth(c, timeout)
  \/ \E c \in Calls : TimerFires(c)

InstanceSpec == InstanceInit /\ [][InstanceNext]_vars

(***************************************************************************)
(* Specification of the crawl() calls.                                     *)
(***************************************************************************)
CrawlNext ==
  \/ CrawlCall
  \/ \E outcome \in StrategyOutcomes : PrimarySettles(outcome)
  \/ \E outcome \in StrategyOutcomes : RetrySettles(outcome)
  \/ Abort

CrawlSpec == Init /\ [][CrawlNext]_vars

(***************************************************************************)
(* Properties.                                                             *)
(***************************************************************************)
\* C1: watch() resolves only when every configured root's backend has fired
\* 'ready' before its startup timeout; as soon as the constructor of a root's
\* backend has thrown or a root's timeout has fired, watch() is rejected, so
\* it never resolves with a subset of the roots ready.
C1_WatchAllOrNothing ==
  /\ watchState = "resolved" => \A r \in Roots : watcher[r] = "ready"
  /\ (\E r \in Roots : watcher[r] \in {"threw", "timedout", "late"})
       => watchState = "rejected"
  /\ watchState = "pending"
       => /\ \A r \in Roots : watcher[r] \in {"starting", "ready"}
          /\ \E r \in Roots : watcher[r] = "starting"

\* One root is ready and subscribed, another timed out: watch() rejected.
C1_Witness ==
  /\ watchState = "rejected"
  /\ \E r \in Roots : watcher[r] = "ready"
  /\ \E r \in Roots : watcher[r] = "timedout"

\* C2: in a session where watch() rejects, onChange is never invoked.
C2_NoEventsWhenRejected == watchState = "rejected" => onChangeCount = 0

\* The result type the claim C3 gives for the signal that came first.
ExpectedType(f) ==
  CASE f = "observation" -> "success"
    [] f = "writeError" -> "error"
    [] OTHER -> "timeout"

\* C3: the result of a checkHealth call is success iff an add/change event
\* for its own basename was observed before the timer fired and before a
\* write error, error iff the write failed before both, timeout otherwise.
C3_ResultByFirstSignal ==
  \A c \in Calls :
    hc[c].pc \in {"returned", "threw"}
      => hc[c].returned.type = ExpectedType(first[c])

\* A call whose write failed first and which returned error when its cookie
\* was observed, before its timer.
C3_Witness ==
  \E c \in Calls :
    /\ hc[c].pc = "returned"
    /\ hc[c].returned.type = "error"
    /\ hc[c].observation = "fulfilled"
    /\ hc[c].timer = "armed"

\* C4: the result slot of a call is single-assignment and the value the call
\* returns is the value in the slot; a call returns once.
C4_SingleAssignment ==
  [][\A c \in Calls :
       /\ hc[c].result # NoResult => hc'[c].result = hc[c].result
       /\ hc[c].pc = "returned"
            => hc'[c].pc = "returned" /\ hc'[c].returned = hc[c].returned
       /\ hc'[c].pc = "returned"
            => hc'[c].returned = hc'[c].result /\ hc'[c].result # NoResult]_vars

\* A returned call all three of whose tasks have run.
C4_Witness ==
  \E c \in Calls :
    /\ hc[c].pc = "returned"
    /\ hc[c].timer = "fired"
    /\ hc[c].creation = "fulfilled"
    /\ hc[c].observation = "fulfilled"

\* C5: checkHealth never throws: when the race has settled the result slot
\* is set, and a write failure or a timeout is a returned value.
C5_NeverThrows ==
  \A c \in Calls :
    /\ hc[c].pc # "threw"
    /\ (hc[c].pc # "idle" /\ RaceSettled(hc[c])) => hc[c].result # NoResult
    /\ hc[c].pc = "returned"
         => hc[c].returned.type \in {"success", "timeout", "error"}

\* Without watch(): one call has returned a write failure, another a timeout.
C5_Witness ==
  /\ watchState = "idle"
  /\ \E c \in Calls : hc[c].pc = "returned" /\ hc[c].returned.type = "error"
  /\ \E c \in Calls : hc[c].pc = "returned" /\ hc[c].returned.type = "timeout"

\* The entries of a pending-completion registry under a basename.
EntriesFor(map, basename) == {e \in map : e.basename = basename}

\* A step that changes the state, in which no timer fires, no write settles
\* and no call is made: every step of a listener that changes the state is
\* one.
ListenerOnly ==
  /\ vars' # vars
  /\ UNCHANGED <<_nextHealthCheckId, watchVars>>
  /\ \A c \in Calls : hc'[c].timer = hc[c].timer /\ hc'[c].creation = hc[c].creation

\* C6: calls in flight at the same time have different basenames and each
\* its own pending entry, and the listener's handling of an event changes
\* neither the state nor the pending entry of a call with another basename.
C6_Isolation ==
  /\ [](\A c, d \in Calls :
          (c # d /\ hc[c].pc = "awaiting" /\ hc[d].pc = "awaiting")
            => /\ hc[c].basename # hc[d].basename
               /\ EntriesFor(_pendingHealthChecks, hc[c].basename)
                    = {[basename |-> hc[c].basename, call |-> c]})
  /\ [][ListenerOnly
          => \A change \in ChangeEvents :
               (\E r \in Roots : Emit(r, change))
                 => \A c \in Calls :
                      hc[c].basename # Basename(change.relativePath)
                        => /\ hc'[c] = hc[c]
                           /\ EntriesFor(_pendingHealthChecks', hc[c].basename)
                                = EntriesFor(_pendingHealthChecks, hc[c].basename)]_vars

\* The second call has returned success while the first, started before it,
\* is still in flight with its own cookie observed.
C6_Witness ==
  /\ hc[1].pc = "awaiting" /\ hc[1].result.type = "success"
  /\ hc[2].pc = "returned" /\ hc[2].returned.type = "success"

\* C7: an add/change event whose basename starts with the prefix is never
\* forwarded to onChange; it fulfils the observation of the call pending
\* for that basename, and changes no state of the Watcher when none is.
C7_CookieEventsObserved ==
  [][ListenerOnly
       => \A change \in CookieEvents :
       (\E r \in Roots : Emit(r, change))
         => /\ UNCHANGED <<onChangeCount, lastOnChange>>
            /\ LET pending == {c \in Calls :
                                 /\ hc[c].pc = "awaiting"
                                 /\ hc[c].basename = Basename(change.relativePath)}
               IN IF pending = {}
                    THEN UNCHANGED <<hc, _pendingHealthChecks, _nextHealthCheckId,
                                     watchVars>>
                    ELSE \A c \in pending : hc'[c].observation = "fulfilled"]_vars

\* A cookie event has fulfilled a call's observation, nothing was forwarded.
C7_Witness ==
  /\ onChangeCount = 0
  /\ \E c \in Calls : hc[c].observation = "fulfilled"

\* C8 as claimed: every event that is not an add/change with the prefix,
\* a delete with the prefix included, is forwarded once and unmodified.
C8_AllOtherEventsForwarded ==
  [][\A change \in ChangeEvents \ CookieEvents :
       (\E r \in Roots : Emit(r, change))
         => /\ onChangeCount' = onChangeCount + 1
            /\ lastOnChange' = change]_vars

\* C8 amended: an event is forwarded to onChange, once and unmodified, iff
\* its basename does not start with the prefix, whatever its kind.
C8_NonPrefixEventsForwarded ==
  [][\A change \in ChangeEvents :
       (\E r \in Roots : Emit(r, change))
         => IF StartsWith(Basename(change.relativePath), healthCheckFilePrefix)
              THEN UNCHANGED <<onChangeCount, lastOnChange>>
              ELSE /\ onChangeCount' = onChangeCount + 1
                   /\ lastOnChange' = change]_vars

\* Two events were handled, one of them forwarded: a delete.
C8_Witness ==
  /\ otherEvents = 2
  /\ onChangeCount = 1
  /\ lastOnChange.event = DELETE_EVENT

\* Whether sub occurs in s.
Contains(s, sub) ==
  \E i \in 1..(Len(s) - Len(sub) + 1) : SubSeq(s, i, i + Len(sub) - 1) = sub

\* C9: when the watchman crawl rejects, crawl() settles as the node crawl
\* started by the retry does: fulfilled with exactly its delta, or rejected
\* with one error whose message contains both errors' messages.
C9_FallbackOutcome ==
  (crawlPc \in {"resolved", "rejected"} /\ useWatchman
     /\ Len(strategyOut) >= 1 /\ strategyOut[1].type = "rejected")
    => /\ Len(strategyOut) = 2
       /\ IF strategyOut[2].type = "fulfilled"
            THEN crawlPc = "resolved" /\ crawlOut = strategyOut[2]
            ELSE /\ crawlPc = "rejected"
                 /\ crawlOut.type = "rejected"
                 /\ Contains(crawlOut.value.message, strategyOut[1].value.message)
                 /\ Contains(crawlOut.value.message, strategyOut[2].value.message)

\* Both strategies failed, with different errors.
C9_Witness ==
  /\ crawlPc = "rejected"
  /\ Len(strategyOut) = 2
  /\ strategyOut[1].value # strategyOut[2].value

\* C10: in one crawl() call the node crawler runs as a fallback at most once
\* and only after the watchman crawl has failed, one warning is emitted and
\* it precedes the fallback, and a failed fallback starts nothing more.
C10_RetryOnce ==
  useWatchman
    => /\ crawlLog \in {<<>>, <<"watchman">>, <<"watchman", "warn", "node">>}
       /\ Len(crawlLog) = 3
            <=> (Len(strategyOut) >= 1 /\ strategyOut[1].type = "rejected")
       /\ Len(strategyOut) <= 2

\* The fallback has failed too.
C10_Witness ==
  /\ crawlPc = "rejected"
  /\ crawlLog = <<"watchman", "warn", "node">>
  /\ Len(strategyOut) = 2

\* C11: a crawl() call made with the signal already aborted is rejected with
\* the abort error, starts no strategy and warns nothing, then or later; a
\* call made before starts its strategy, and an abort during the call changes
\* nothing of it: it is still fulfilled when its strategy is.
C11_AbortCheckedAtEntry ==
  /\ [][crawls' # crawls
          => IF aborted
               THEN /\ crawlPc' = "rejected"
                    /\ crawlOut' = [type |-> "rejected", value |-> AbortError]
                    /\ crawlLog' = <<>> /\ strategyOut' = <<>>
               ELSE /\ crawlPc' \in {"primary", "retry"}
                    /\ crawlOut' = NoOutcome
                    /\ Len(crawlLog') = 1]_vars
  /\ [][(crawls' = crawls /\ crawlLog = <<>>)
          => crawlLog' = <<>> /\ strategyOut' = strategyOut]_vars
  /\ [][aborted' # aborted
          => UNCHANGED <<crawlPc, crawlOut, crawlLog, strategyOut, crawler>>]_vars
  /\ [][(aborted /\ crawlPc \in {"primary", "retry"}
            /\ Len(strategyOut') > Len(strategyOut)
            /\ strategyOut'[Len(strategyOut')].type = "fulfilled")
          => /\ crawlPc' = "resolved"
             /\ crawlOut' = strategyOut'[Len(strategyOut')]]_vars

\* The second crawl() call was made after an abort: rejected, nothing run.
C11_Witness ==
  /\ crawls = 2
  /\ aborted
  /\ crawlPc = "rejected"
  /\ crawlOut = [type |-> "rejected", value |-> AbortError]
  /\ crawlLog = <<>>

\* C12: a call takes the stored id and stores its successor, which is 0
\* after MAX_SAFE_INTEGER; successive calls so have the ids 0, 1, ...,
\* MAX_SAFE_INTEGER, 0, ...; no call throws; the stored id stays within
\* 0..MAX_SAFE_INTEGER; calls pending at the same time have different ids.
C12_IdWraps ==
  /\ [](/\ 0 <= _nextHealthCheckId /\ _nextHealthCheckId <= MAX_SAFE_INTEGER
        /\ \A c \in Calls : hc[c].pc # "threw"
        /\ \A c \in Calls \ {1} :
             hc[c].pc # "idle"
               => hc[c].healthCheckId =
                    IF hc[c - 1].healthCheckId = MAX_SAFE_INTEGER THEN 0
                    ELSE hc[c - 1].healthCheckId + 1
        /\ \A c, d \in Calls :
             (c # d /\ hc[c].pc = "awaiting" /\ hc[d].pc = "awaiting")
               => hc[c].healthCheckId # hc[d].healthCheckId)
  /\ [][\A c \in Calls :
          (hc[c].pc = "idle" /\ hc'[c].pc # "idle")
            => /\ hc'[c].healthCheckId = _nextHealthCheckId
               /\ _nextHealthCheckId' =
                    IF _nextHealthCheckId = MAX_SAFE_INTEGER THEN 0
                    ELSE _nextHealthCheckId + 1]_vars

\* The call with the id MAX_SAFE_INTEGER and the next one, with the id 0,
\* are pending at the same time.
C12_Witness ==
  /\ hc[1].pc = "awaiting" /\ hc[1].healthCheckId = MAX_SAFE_INTEGER
  /\ hc[2].pc = "awaiting" /\ hc[2].healthCheckId = 0
  /\ _nextHealthCheckId = 1

\* The checkHealth calls made in the process: the Watcher (0 for the
\* modelled one), the call's number on it, its ids and its basename.
ChecksMade ==
  {[w |-> 0, n |-> c, instanceId |-> _instanceId,
    healthCheckId |-> hc[c].healthCheckId, basename |-> hc[c].basename] :
     c \in {d \in Calls : hc[d].pc # "idle"}}
  \cup UNION {{[w |-> i, n |-> k, instanceId |-> watchers[i]._instanceId,
                healthCheckId |-> watchers[i].checks[k].healthCheckId,
                basename |-> watchers[i].checks[k].basename] :
                 k \in 1..Len(watchers[i].checks)} : i \in 1..Len(watchers)}

\* C13: the Watchers of a process have different instance ids, below the
\* process-wide counter, and any two checkHealth calls, on one Watcher or on
\* two, have different (instance id, check id) pairs and different basenames.
C13_DistinctCookies ==
  /\ _instanceId < nextInstanceId
  /\ \A i \in 1..Len(watchers) :
       /\ watchers[i]._instanceId < nextInstanceId
       /\ watchers[i]._instanceId # _instanceId
       /\ \A j \in 1..Len(watchers) :
            i # j => watchers[i]._instanceId # watchers[j]._instanceId
  /\ \A a, b \in ChecksMade :
       <<a.w, a.n>> # <<b.w, b.n>>
         => /\ <<a.instanceId, a.healthCheckId>> # <<b.instanceId, b.healthCheckId>>
            /\ a.basename # b.basename

\* Watcher 1 has made check 11 and Watcher 12 check 1: the digits of the
\* two pairs are the same.
C13_Witness ==
  /\ \E a \in ChecksMade : a.w = 0 /\ a.instanceId = 1 /\ a.healthCheckId = 11
  /\ \E b \in ChecksMade : b.w # 0 /\ b.instanceId = 12 /\ b.healthCheckId = 1

\* C14: a checkHealth call completes in the turn in which its result slot is
\* set: no call is still awaiting with its result set, a call whose write
\* has failed with its timer still armed included.
C14_ReturnsWhenResultSet ==
  \A c \in Calls : hc[c].pc = "awaiting" => hc[c].result = NoResult

\* C15: the registry holds exactly one entry for each checkHealth call in
\* flight, under the call's basename, from the call's entry on (before its
\* write has settled or an event was handled), and none for a call that has
\* returned, whatever it returned; with no call in flight it is empty.
C15_RegistryIsInFlightCalls ==
  _pendingHealthChecks =
    {[basename |-> hc[c].basename, call |-> c] :
       c \in {d \in Calls : hc[d].pc = "awaiting"}}

\* Both calls have returned, one success and one timeout; nothing is left.
C15_Witness ==
  /\ _pendingHealthChecks = {}
  /\ \E c \in Calls : hc[c].pc = "returned" /\ hc[c].returned.type = "success"
  /\ \E c \in Calls : hc[c].pc = "returned" /\ hc[c].returned.type = "timeout"

\* C16: fs.promises.unlink is called at most once per checkHealth call, only
\* after the call has returned and its write has settled, and it has been
\* called whenever both have happened, a call that returned timeout with
\* its write pending included; its settlement, a failure included, changes
\* neither what the call returned nor its result slot.
C16_UnlinkOnceAfterWrite ==
  /\ [](\A c \in Calls :
          /\ hc[c].unlinks <= 1
          /\ hc[c].unlinks = 1
               <=> (hc[c].pc = "returned" /\ hc[c].creation = "fulfilled"))
  /\ [][\A c \in Calls :
          (hc[c].unlink = "attempted" /\ hc'[c].unlink = "settled")
            => /\ hc'[c].pc = "returned"
               /\ hc'[c].returned = hc[c].returned
               /\ hc'[c].result = hc[c].result
               /\ hc'[c].unlinks = 1]_vars

\* A call returned timeout before its write has settled; the write has
\* settled since and the unlink it started has settled too.
C16_Witness ==
  \E c \in Calls :
    /\ hc[c].pc = "returned"
    /\ hc[c].returned.type = "timeout"
    /\ first[c] = "timer"
    /\ hc[c].observation = "pending"
    /\ hc[c].unlink = "settled"
    /\ hc[c].unlinks = 1

\* C17: when the node crawl is the selected strategy and it fails, crawl()
\* is rejected with that very error; the call starts no second strategy and
\* warns nothing.
C17_NodeFailurePropagates ==
  ~useWatchman
    => /\ crawlLog \in {<<>>, <<"node">>}
       /\ Len(strategyOut) <= 1
       /\ crawlPc # "retry"
       /\ (Len(strategyOut) = 1 /\ strategyOut[1].type = "rejected")
            => /\ crawlPc = "rejected"
               /\ crawlOut = strategyOut[1]
               /\ crawlOut.value \in CrawlErrors

\* The node crawl, selected first, has failed.
C17_Witness ==
  /\ ~useWatchman
  /\ crawlPc = "rejected"
  /\ crawlLog = <<"node">>
  /\ Len(strategyOut) = 1
  /\ crawlOut = strategyOut[1]

\* The backends registered by watch().
Registered == {_backends[i] : i \in DOMAIN _backends}

\* C19 as claimed, for a session of several roots: when the timer wins, the
\* result is timeout and carries the reason a backend of the session reports
\* when the timer fires: none when no backend is registered, null when no
\* backend reports one, and otherwise the reason of a backend that does.
C19_PauseReasonOfSession ==
  [][\A c \in Calls :
       (hc[c].timer = "armed" /\ hc'[c].timer = "fired" /\ hc[c].result = NoResult)
         => /\ hc'[c].result.type = "timeout"
            /\ hc'[c].returned = hc'[c].result
            /\ hc'[c].result.pauseReason \in
                 IF Registered = {} THEN {UNDEFINED}
                 ELSE IF \A r \in Registered : pause[r] = NULL THEN {NULL}
                 ELSE {pause[r] : r \in {q \in Registered : pause[q] # NULL}}]_vars

\* C19 amended: when the timer wins, the result is timeout and carries what
\* the backend of the first root reports when the timer fires, and no
\* reason when no backend is registered.
C19_PauseReasonOfFirstBackend ==
  [][\A c \in Calls :
       (hc[c].timer = "armed" /\ hc'[c].timer = "fired" /\ hc[c].result = NoResult)
         => /\ hc'[c].result.type = "timeout"
            /\ hc'[c].returned = hc'[c].result
            /\ hc'[c].result.pauseReason =
                 IF Len(_backends) = 0 THEN UNDEFINED ELSE pause[_backends[1]]]_vars

\* A call entered before watch() has returned timeout with the reason the
\* first backend reported when the timer fired; the backend has stopped
\* deferring since.
C19_Witness ==
  \E c \in Calls :
    /\ hc[c].pc = "returned"
    /\ hc[c].watcher = UNDEFINED
    /\ hc[c].returned.type = "timeout"
    /\ hc[c].returned.pauseReason = "deferred"
    /\ Len(_backends) = NumRoots
    /\ pause[_backends[1]] = NULL

\* C18: close() calls close() on every backend watch() registered, all in
\* the call itself; the marker is cleared only in a step after which every
\* one of them has closed, and is still set while close() is pending; a
\* checkHealth call made once the close() of a session has resolved has no
\* watcher name, and returns none.
C18_CloseAllThenClearMarker ==
  /\ [][(closeState = "idle" /\ closeState' # "idle")
          => \A r \in Registered : backendClose'[r] = "closing"]_vars
  /\ [][(_activeWatcher # NULL /\ _activeWatcher' = NULL)
          => /\ closeState' = "resolved"
             /\ \A r \in Registered : backendClose'[r] = "closed"]_vars
  /\ [](closeState = "pending"
          => /\ _activeWatcher \notin {NULL, UNDEFINED}
             /\ \E r \in Registered : backendClose[r] = "closing")
  /\ [][\A c \in Calls :
          (/\ hc[c].pc = "idle" /\ hc'[c].pc # "idle"
           /\ closeState = "resolved"
           /\ Registered # {}
           /\ \A r \in Registered : backendClose[r] = "closed")
            => hc'[c].watcher = NULL]_vars
  /\ [](\A c \in Calls :
          hc[c].pc = "returned" => hc[c].returned.watcher = hc[c].watcher)

\* A session of all roots was closed; a call made since has returned.
C18_Witness ==
  /\ closeState = "resolved"
  /\ Len(_backends) = NumRoots
  /\ \A r \in Roots : backendClose[r] = "closed"
  /\ \E c \in Calls : /\ hc[c].pc = "returned"
                       /\ hc[c].returned.watcher = NULL

\* Whether watch() constructed the backend of a root.
Constructed(w) == w \in {"starting", "ready", "timedout", "late"}

\* C20: when a close() called after watch() settled (resolved or rejected)
\* completes, every backend that watch() constructed has closed: none is
\* left open, subscribed or about to subscribe.
C20_ConstructedBackendsClosed ==
  [][(/\ closeState # "resolved" /\ closeState' = "resolved"
      /\ watchState \in {"resolved", "rejected"})
       => \A r \in Roots :
            Constructed(watcher'[r]) => backendClose'[r] = "closed"]_vars

====
